---- MODULE Spec2Model ----
(***************************************************************************)
(* Model of the Modbus TCP (MBAP) socket framer of pymodbus,               *)
(* pymodbus/framer/socket_framer.py: class ModbusSocketFramer.             *)
(*                                                                         *)
(* Bytes are naturals in 0..255 and byte strings are sequences of bytes.   *)
(* The framer's state is its buffer and its header; one call of            *)
(* processIncomingPacket is one step.  The received stream is fixed in     *)
(* the initial state and handed to the framer in chunks of any size.       *)
(*                                                                         *)
(* The transport layer, pymodbus/transport/transport_base.py and           *)
(* transport_tcp.py, is modelled next to it with its own variables.        *)
(***************************************************************************)
EXTENDS Naturals, Integers, Sequences, FiniteSets, TLC

VARIABLES
    stream,     \* the bytes the peer sends on this connection, in order
    items,      \* what the stream was made of: messages and raw headers
    unit,       \* the unit argument of processIncomingPacket (a list)
    pos,        \* number of bytes of stream already fed to the framer
    first,      \* TRUE when the last call was the first on this connection
    buffer,     \* ModbusSocketFramer._buffer
    header,     \* ModbusSocketFramer._header
    base,       \* offset in stream of buffer[0] (bytes removed so far)
    cbs,        \* results handed to the callback so far, in order
    raised,     \* exception raised by the last processIncomingPacket call
    message,    \* round trip: the message given to buildPacket
    packet,     \* round trip: the bytes buildPacket returned
    decoder,    \* ModbusSocketFramer.decoder
    client,     \* ModbusSocketFramer.client
    pc,         \* "idle", or "loop" inside the loop of processIncomingPacket
    resets,     \* number of resetFrame calls made by the user
    peek,       \* the last decode_data call: its argument and what it returned
    is_server,  \* BaseTransport._is_server
    callbacks,  \* the callbacks argument the transport was constructed with
    t_cbs,      \* BaseTransport._cbs
    t_transport, \* BaseTransport._transport
    t_protocol, \* BaseTransport._protocol
    endpoint,   \* TCPtransport._host and _port
    events,     \* the events asyncio delivered to the transport, in order
    calls,      \* the callback calls made by the transport, in order
    routines    \* the async_start / async_stop calls and what they ran

\* the framer and its connection
framerVars == <<stream, items, unit, pos, first, buffer, header, base, cbs,
                raised, message, packet, decoder, client, pc, resets, peek>>

\* the transport
transportVars == <<is_server, callbacks, t_cbs, t_transport, t_protocol,
                   endpoint, events, calls, routines>>

vars == <<framerVars, transportVars>>

\* ------------------------------------------------------------------------
\* Bounds of the model
\* ------------------------------------------------------------------------
MaxFrames == 2      \* items concatenated into one stream
MaxPayload == 2     \* payload bytes of a round-trip message
MaxResets == 1      \* resetFrame calls made by the user
MaxEvents == 3      \* events delivered to a transport
MaxStartStop == 2   \* async_start / async_stop calls on a transport

\* ------------------------------------------------------------------------
\* Byte strings, Python slices, struct.pack / struct.unpack
\* ------------------------------------------------------------------------

Min(a, b) == IF a < b THEN a ELSE b

\* s[a:b] of Python for 0 <= a, 0 <= b
Slice(s, a, b) == SubSeq(s, a + 1, Min(b, Len(s)))

\* s[a:] of Python for 0 <= a
SliceFrom(s, a) == SubSeq(s, a + 1, Len(s))

\* big-endian unsigned 16 bit field ("H" of struct)
PackH(n) == <<n \div 256, n % 256>>

UnpackH(s, i) == s[i] * 256 + s[i + 1]

ZeroHeader == [tid |-> 0, pid |-> 0, len |-> 0, uid |-> 0]

\* struct.unpack(">HHHB", b) for a 7 byte string b
UnpackHeader(b) ==
    [tid |-> UnpackH(b, 1), pid |-> UnpackH(b, 3), len |-> UnpackH(b, 5),
     uid |-> b[7]]

\* self._hsize
hsize == 7

\* ------------------------------------------------------------------------
\* Collaborators of the framer that live outside socket_framer.py
\* ------------------------------------------------------------------------
\* function codes that have a codec in the PDU codec registry
Registered == {1, 3}

\* the decoder's "no result"
None == [decoded |-> FALSE, function_code |-> 0, payload |-> <<>>]

\* decoder.decode(data): the PDU codec registry.  A registered function code
\* decodes; a function code >= 0x80 is an exception response that carries a
\* one byte exception code; anything else yields no result.
decode(data) ==
    IF data[1] >= 128
    THEN IF Len(data) >= 2
         THEN [decoded |-> TRUE, function_code |-> data[1],
               payload |-> Tail(data)]
         ELSE None
    ELSE IF data[1] \in Registered
         THEN [decoded |-> TRUE, function_code |-> data[1],
               payload |-> Tail(data)]
         ELSE None

\* message.encode(): the payload after the function code
encode(m) == m.payload

\* self._validate_unit_id(unit, single) with the default single = False:
\* the frame is accepted when its unit is in the accepted list or is the
\* broadcast unit.
validate_unit_id(h, units) ==
    \/ h.uid = 0
    \/ \E i \in 1..Len(units) : units[i] = h.uid

\* ------------------------------------------------------------------------
\* ModbusSocketFramer.  A framer f is [buffer, header, base]; base is the
\* number of received bytes already removed from the front of the buffer.
\* ------------------------------------------------------------------------
NewFramer == [buffer |-> <<>>, header |-> ZeroHeader, base |-> 0]

isFrameReady(f) == Len(f.buffer) > hsize

\* advanceFrame that forgets that the length field counts the uid byte
advanceFrame_uid(f) ==
    LET length == hsize + f.header.len
    IN  [buffer |-> SliceFrom(f.buffer, length),
         header |-> ZeroHeader,
         base |-> f.base + Min(length, Len(f.buffer))]

advanceFrame(f) ==
    LET length == hsize + f.header.len - 1
    IN  [buffer |-> SliceFrom(f.buffer, length),
         header |-> ZeroHeader,
         base |-> f.base + Min(length, Len(f.buffer))]

\* resetFrame that leaves the header alone
resetFrame_keephdr(f) ==
    [buffer |-> <<>>, header |-> f.header, base |-> f.base + Len(f.buffer)]

\* resetFrame that leaves the buffer alone
resetFrame_keepbuf(f) ==
    [buffer |-> f.buffer, header |-> ZeroHeader, base |-> f.base]

resetFrame(f) ==
    [buffer |-> <<>>, header |-> ZeroHeader, base |-> f.base + Len(f.buffer)]

\* checkFrame that takes a frame with a non-zero protocol id for an error
checkFrame_strict(f) ==
    IF isFrameReady(f)
    THEN LET f1 == [f EXCEPT !.header = UnpackHeader(Slice(f.buffer, 0, hsize))]
         IN  IF f1.header.len < 2 \/ f1.header.pid # 0
             THEN [f |-> advanceFrame(f1), ok |-> FALSE]
             ELSE IF Len(f1.buffer) - hsize + 1 >= f1.header.len
                  THEN [f |-> f1, ok |-> TRUE]
                  ELSE [f |-> f1, ok |-> FALSE]
    ELSE [f |-> f, ok |-> FALSE]

\* returns the framer after the call and the returned boolean
checkFrame(f) ==
    IF isFrameReady(f)
    THEN LET f1 == [f EXCEPT !.header = UnpackHeader(Slice(f.buffer, 0, hsize))]
         IN  IF f1.header.len < 2
             THEN [f |-> advanceFrame(f1), ok |-> FALSE]
             ELSE IF Len(f1.buffer) - hsize + 1 >= f1.header.len
                  THEN [f |-> f1, ok |-> TRUE]
                  ELSE [f |-> f1, ok |-> FALSE]
    ELSE [f |-> f, ok |-> FALSE]

addToFrame(f, data) == [f EXCEPT !.buffer = f.buffer \o data]

getFrame(f) ==
    LET length == hsize + f.header.len - 1
    IN  Slice(f.buffer, hsize, length)

getRawFrame(f) == f.buffer

\* the result with the header's tid, pid and uid.  The other fields record
\* where the call took place: error is the error flag of _process, first and
\* last delimit (as offsets in the received stream, last excluded) the data
\* given to the decoder.
populateResult(f, result, error) ==
    [transaction_id |-> f.header.tid,
     protocol_id |-> f.header.pid,
     unit_id |-> f.header.uid,
     function_code |-> result.function_code,
     payload |-> result.payload,
     error |-> error,
     first |-> f.base + (IF error THEN 0 ELSE hsize),
     last |-> f.base + (IF error THEN Len(f.buffer)
                        ELSE Min(hsize + f.header.len - 1, Len(f.buffer)))]

\* _process that hands every decoded result to the callback
process_nogate(f, error) ==
    LET data == IF error THEN getRawFrame(f) ELSE getFrame(f)
        result == decode(data)
    IN  IF result = None
        THEN [f |-> f, exc |-> "ModbusIOException", out |-> <<>>]
        ELSE LET r == populateResult(f, result, error)
                 f2 == advanceFrame(f)
             IN  [f |-> f2, exc |-> "none",
                  out |-> <<r @@ [next |-> f2.base, hdr |-> f2.header]>>]

\* _process(callback, error): the framer afterwards, the exception raised
\* ("none" when it returns) and the results handed to the callback; each
\* result also records, in next and hdr, the offset in the stream at which
\* the buffer starts and the header when the callback runs.
process(f, error) ==
    LET data == IF error THEN getRawFrame(f) ELSE getFrame(f)
        result == decode(data)
    IN  IF result = None
        THEN [f |-> f, exc |-> "ModbusIOException", out |-> <<>>]
        ELSE IF error /\ result.function_code < 128
        THEN [f |-> f, exc |-> "InvalidMessageReceivedException", out |-> <<>>]
        ELSE LET r == populateResult(f, result, error)
                 f2 == advanceFrame(f)
             IN  [f |-> f2, exc |-> "none",
                  out |-> <<r @@ [next |-> f2.base, hdr |-> f2.header]>>]

\* a loop body that stops at a frame that fails the check and keeps it
Iteration_keep(f, units) ==
    IF isFrameReady(f)
    THEN LET c == checkFrame(f)
         IN  IF c.ok
             THEN IF validate_unit_id(c.f.header, units)
                  THEN LET p == process(c.f, FALSE)
                       IN  [f |-> p.f, out |-> p.out, exc |-> p.exc,
                            again |-> (p.exc = "none")]
                  ELSE [f |-> resetFrame(c.f), out |-> <<>>, exc |-> "none",
                        again |-> TRUE]
             ELSE [f |-> c.f, out |-> <<>>, exc |-> "none", again |-> FALSE]
    ELSE IF Len(f.buffer) > 0 /\ f.header.len < 2
         THEN LET p == process(f, TRUE)
              IN  [f |-> p.f, out |-> p.out, exc |-> p.exc, again |-> FALSE]
         ELSE [f |-> f, out |-> <<>>, exc |-> "none", again |-> FALSE]

\* one pass through the body of the while loop of processIncomingPacket:
\* the framer afterwards, the results handed to the callback, the exception
\* raised, and again = TRUE when the loop goes round once more
Iteration(f, units) ==
    IF isFrameReady(f)
    THEN LET c == checkFrame(f)
         IN  IF c.ok
             THEN IF validate_unit_id(c.f.header, units)
                  THEN LET p == process(c.f, FALSE)
                       IN  [f |-> p.f, out |-> p.out, exc |-> p.exc,
                            again |-> (p.exc = "none")]
                  ELSE [f |-> resetFrame(c.f), out |-> <<>>, exc |-> "none",
                        again |-> TRUE]
             ELSE [f |-> resetFrame(c.f), out |-> <<>>, exc |-> "none",
                   again |-> TRUE]
    ELSE IF Len(f.buffer) > 0 /\ f.header.len < 2
         THEN LET p == process(f, TRUE)
              IN  [f |-> p.f, out |-> p.out, exc |-> p.exc, again |-> FALSE]
         ELSE [f |-> f, out |-> <<>>, exc |-> "none", again |-> FALSE]

\* the while loop of processIncomingPacket, from the framer f with the
\* results out already handed to the callback in this call
RECURSIVE FrameLoop(_, _, _)
FrameLoop(f, units, out) ==
    LET s == Iteration(f, units)
    IN  IF s.again
        THEN FrameLoop(s.f, units, out \o s.out)
        ELSE [f |-> s.f, out |-> out \o s.out, exc |-> s.exc]

\* processIncomingPacket(data, callback, unit): the framer afterwards, the
\* results handed to the callback and the exception raised
processIncomingPacket(f, data, units) ==
    FrameLoop(addToFrame(f, data), units, <<>>)

\* decode_data that keeps the header it has read
decode_data_store(f, data) ==
    IF Len(data) > hsize
    THEN LET h == UnpackHeader(Slice(data, 0, hsize + 1))
             fcode == Slice(data, 0, hsize + 1)[8]
         IN  [f |-> [f EXCEPT !.header = h],
              ret |-> {<<"tid", h.tid>>, <<"pid", h.pid>>,
                       <<"length", h.len>>, <<"unit", h.uid>>,
                       <<"fcode", fcode>>}]
    ELSE [f |-> f, ret |-> {}]

\* decode_data(data): the framer afterwards and the mapping returned, a set
\* of <<key, value>> pairs
decode_data(f, data) ==
    IF Len(data) > hsize
    THEN LET h == UnpackHeader(Slice(data, 0, hsize + 1))
             fcode == Slice(data, 0, hsize + 1)[8]
         IN  [f |-> f,
              ret |-> {<<"tid", h.tid>>, <<"pid", h.pid>>,
                       <<"length", h.len>>, <<"unit", h.uid>>,
                       <<"fcode", fcode>>}]
    ELSE [f |-> f, ret |-> {}]

\* buildPacket that counts the function code and the payload only
buildPacket_nouid(m) ==
    LET data == encode(m)
    IN  PackH(m.transaction_id) \o PackH(m.protocol_id)
          \o PackH(Len(data) + 1) \o <<m.unit_id, m.function_code>> \o data

\* buildPacket(message): struct.pack(">HHHBB", tid, pid, len(data) + 2,
\* uid, function_code) followed by data
buildPacket(m) ==
    LET data == encode(m)
    IN  PackH(m.transaction_id) \o PackH(m.protocol_id)
          \o PackH(Len(data) + 2) \o <<m.unit_id, m.function_code>> \o data

\* ------------------------------------------------------------------------
\* The connection: what the peer sends
\* ------------------------------------------------------------------------
Message(tid, pid, uid, fc, d) ==
    [transaction_id |-> tid, protocol_id |-> pid, unit_id |-> uid,
     function_code |-> fc, payload |-> d]

NoMessage == Message(0, 0, 0, 0, <<>>)

\* a frame built by buildPacket
Framed(m) == [framed |-> TRUE, m |-> m, bytes |-> buildPacket(m)]

\* seven bytes that are a header and nothing else
Raw(b) == [framed |-> FALSE, m |-> NoMessage, bytes |-> b]

\* What a stream is made of: a read response, an exception response with a
\* large transaction id and a non-zero protocol id, a frame for unit 9, a
\* frame with a function code that has no codec, and two headers with a
\* length field below 2.
Catalog ==
    {Framed(Message(1, 0, 1, 3, <<0, 2>>)),
     Framed(Message(33538, 5, 1, 131, <<2>>)),
     Framed(Message(2, 0, 9, 3, <<>>)),
     Framed(Message(3, 0, 1, 85, <<7>>)),
     Raw(<<0, 4, 0, 0, 0, 0, 1>>),
     Raw(<<0, 5, 0, 0, 0, 1, 1>>)}

\* the unit argument after a single unit was wrapped in a list
UnitArgs == {<<1>>, <<1, 9>>}

RECURSIVE Concat(_)
Concat(its) ==
    IF its = <<>> THEN <<>> ELSE Head(its).bytes \o Concat(Tail(its))

ItemSeqs == UNION {[1..n -> Catalog] : n \in 1..MaxFrames}

\* the framer held in the variables
Framer == [buffer |-> buffer, header |-> header, base |-> base]

\* the rest of a framer after ModbusSocketFramer(decoder): no client, not
\* inside a call, never reset, decode_data never called
FramerIdle ==
    /\ decoder = "decoder"
    /\ client = "None"
    /\ pc = "idle"
    /\ resets = 0
    /\ peek = [data |-> <<>>, ret |-> {}]

\* no transport takes part
NoTransport ==
    /\ is_server = FALSE
    /\ callbacks = "None"
    /\ t_cbs = "None"
    /\ t_transport = "None"
    /\ t_protocol = "None"
    /\ endpoint = <<"", 0>>
    /\ events = <<>>
    /\ calls = <<>>
    /\ routines = <<>>

Init ==
    /\ items \in ItemSeqs
    /\ stream = Concat(items)
    /\ unit \in UnitArgs
    /\ pos = 0
    /\ first = FALSE
    /\ buffer = NewFramer.buffer
    /\ header = NewFramer.header
    /\ base = NewFramer.base
    /\ cbs = <<>>
    /\ raised = "none"
    /\ message = NoMessage
    /\ packet = <<>>
    /\ FramerIdle
    /\ NoTransport

\* the next n bytes of the stream
Chunk(n) == SubSeq(stream, pos + 1, pos + n)

\* one call processIncomingPacket(data, callback, unit) with the next n
\* bytes of the stream as data
Feed ==
    /\ pc = "idle"
    /\ \E n \in 1..(Len(stream) - pos) :
          LET r == processIncomingPacket(Framer, Chunk(n), unit)
          IN  /\ buffer' = r.f.buffer
              /\ header' = r.f.header
              /\ base' = r.f.base
              /\ cbs' = cbs \o r.out
              /\ raised' = r.exc
              /\ first' = (pos = 0)
              /\ pos' = pos + n
              /\ UNCHANGED <<stream, items, unit, message, packet, decoder,
                             client, pc, resets, peek>>
              /\ UNCHANGED transportVars

Next == Feed

Spec == Init /\ [][Next]_vars

\* ------------------------------------------------------------------------
\* The same connection with the loop of processIncomingPacket taken one
\* pass at a time, and with resetFrame called by the user between calls
\* ------------------------------------------------------------------------
\* processIncomingPacket is entered with the next n bytes: addToFrame
Enter ==
    /\ pc = "idle"
    /\ \E n \in 1..(Len(stream) - pos) :
          /\ buffer' = addToFrame(Framer, Chunk(n)).buffer
          /\ first' = (pos = 0)
          /\ pos' = pos + n
    /\ raised' = "none"
    /\ pc' = "loop"
    /\ UNCHANGED <<stream, items, unit, header, base, cbs, message, packet,
                   decoder, client, resets, peek>>
    /\ UNCHANGED transportVars

\* one pass through the loop body; the call ends when the loop is left
Iterate ==
    /\ pc = "loop"
    /\ \E s \in {Iteration(Framer, unit)} :
           /\ buffer' = s.f.buffer
           /\ header' = s.f.header
           /\ base' = s.f.base
           /\ cbs' = cbs \o s.out
           /\ raised' = s.exc
           /\ pc' = IF s.again THEN "loop" ELSE "idle"
    /\ UNCHANGED <<stream, items, unit, pos, first, message, packet, decoder,
                   client, resets, peek>>
    /\ UNCHANGED transportVars

\* the user calls resetFrame()
ResetFrame ==
    /\ pc = "idle"
    /\ resets < MaxResets
    /\ LET f == resetFrame(Framer)
       IN  /\ buffer' = f.buffer
           /\ header' = f.header
           /\ base' = f.base
    /\ resets' = resets + 1
    /\ UNCHANGED <<stream, items, unit, pos, first, cbs, raised, message,
                   packet, decoder, client, pc, peek>>
    /\ UNCHANGED transportVars

NextStep == Enter \/ Iterate \/ ResetFrame

SpecStep == Init /\ [][NextStep]_vars

\* One call on what has arrived: whole items, the last of them possibly
\* cut short.
InitLoop ==
    /\ items \in ItemSeqs
    /\ \E k \in 0..(Len(items[Len(items)].bytes) - 1) :
          stream = SubSeq(Concat(items), 1, Len(Concat(items)) - k)
    /\ unit \in UnitArgs
    /\ pos = 0
    /\ first = FALSE
    /\ buffer = NewFramer.buffer
    /\ header = NewFramer.header
    /\ base = NewFramer.base
    /\ cbs = <<>>
    /\ raised = "none"
    /\ message = NoMessage
    /\ packet = <<>>
    /\ FramerIdle
    /\ NoTransport

\* processIncomingPacket is entered with all the bytes that have arrived
EnterAll == Enter /\ pos' = Len(stream)

NextLoop == EnterAll \/ Iterate

\* a call that has been entered runs on: nothing suspends the loop
SpecLoop == InitLoop /\ [][NextLoop]_vars /\ WF_vars(Iterate)

\* ------------------------------------------------------------------------
\* Round trip: a message is built by buildPacket and the packet is what
\* the peer sends
\* ------------------------------------------------------------------------
Payloads == UNION {[1..n -> {0, 255}] : n \in 0..MaxPayload}

Messages ==
    {Message(tid, pid, uid, fc, d) :
        tid \in {0, 258, 65535}, pid \in {0, 5}, uid \in {0, 1, 9, 255},
        fc \in {1, 3, 85, 131}, d \in Payloads}

InitRT ==
    /\ message \in Messages
    /\ packet = <<>>
    /\ items = <<>>
    /\ stream = <<>>
    /\ unit \in UnitArgs
    /\ pos = 0
    /\ first = FALSE
    /\ buffer = NewFramer.buffer
    /\ header = NewFramer.header
    /\ base = NewFramer.base
    /\ cbs = <<>>
    /\ raised = "none"
    /\ FramerIdle
    /\ NoTransport

\* packet = framer.buildPacket(message), then sent
Build ==
    /\ packet = <<>>
    /\ packet' = buildPacket(message)
    /\ stream' = packet'
    /\ UNCHANGED <<items, unit, pos, first, buffer, header, base, cbs,
                   raised, message, decoder, client, pc, resets, peek>>
    /\ UNCHANGED transportVars

NextRT == Build \/ Feed

SpecRT == InitRT /\ [][NextRT]_vars

\* framer.decode_data(data) between two calls, on the first n bytes of the
\* packet: nothing, a header alone, a header and a function code, all of it
DecodeData ==
    /\ pc = "idle"
    /\ \E n \in {0, Min(hsize, Len(packet)), Min(hsize + 1, Len(packet)),
                 Len(packet)} :
          \E r \in {decode_data(Framer, SubSeq(packet, 1, n))} :
              /\ peek' = [data |-> SubSeq(packet, 1, n), ret |-> r.ret]
              /\ buffer' = r.f.buffer
              /\ header' = r.f.header
              /\ base' = r.f.base
    /\ UNCHANGED <<stream, items, unit, pos, first, cbs, raised, message,
                   packet, decoder, client, pc, resets>>
    /\ UNCHANGED transportVars

NextPeek == Build \/ Feed \/ DecodeData

SpecPeek == InitRT /\ [][NextPeek]_vars

\* ------------------------------------------------------------------------
\* The transport layer: BaseTransport and TCPtransport
\* ------------------------------------------------------------------------
\* the instance made by BaseTransportProtocol() in BaseTransport.__init__
DefaultProtocol == "BaseTransportProtocol()"

\* BaseTransport.__init__(is_server, callbacks): the fields it sets
BaseTransport_init(server, cb) ==
    [is_server |-> server, cbs |-> DefaultProtocol, transport |-> "None",
     protocol |-> "None"]

\* TCPtransport.__init__(is_server, callbacks)
TCPtransport_init(server, cb) ==
    [base |-> BaseTransport_init(server, cb),
     endpoint |-> [host |-> "127.0.0.1", port |-> 502]]

\* self._loop.create_connection(...) without await: a coroutine object
create_connection == [coroutine |-> TRUE, pair |-> <<"None", "None">>]

\* TCPtransport._async_start_client: the two-target assignment unpacks what
\* create_connection returned; a coroutine object cannot be unpacked
async_start_client ==
    LET r == create_connection
    IN  IF r.coroutine
        THEN [transport |-> t_transport, protocol |-> t_protocol,
              exc |-> "TypeError"]
        ELSE [transport |-> r.pair[1], protocol |-> r.pair[2],
              exc |-> "none"]

\* the routine async_start awaits, by role
start_routine(server) ==
    IF server THEN "_async_start_server" ELSE "_async_start_client"

\* the routine async_stop awaits, by role
stop_routine(server) ==
    IF server THEN "_async_stop_server" ELSE "_async_stop_client"

Transports == {"T1", "T2"}
DataArgs == {"d1", "d2"}
ExcArgs == {"None", "exc"}
Endpoints == {[host |-> "127.0.0.1", port |-> 502],
              [host |-> "10.0.0.1", port |-> 5020]}

\* a TCPtransport right after TCPtransport(is_server, callbacks); no framer
\* takes part
InitT ==
    /\ \E server \in BOOLEAN, cb \in {"C", "None"} :
          LET t == TCPtransport_init(server, cb)
          IN  /\ is_server = t.base.is_server
              /\ callbacks = cb
              /\ t_cbs = t.base.cbs
              /\ t_transport = t.base.transport
              /\ t_protocol = t.base.protocol
              /\ endpoint = t.endpoint
    /\ events = <<>>
    /\ calls = <<>>
    /\ routines = <<>>
    /\ items = <<>>
    /\ stream = <<>>
    /\ unit = <<1>>
    /\ pos = 0
    /\ first = FALSE
    /\ buffer = NewFramer.buffer
    /\ header = NewFramer.header
    /\ base = NewFramer.base
    /\ cbs = <<>>
    /\ raised = "none"
    /\ message = NoMessage
    /\ packet = <<>>
    /\ FramerIdle

\* TCPtransport.setup(host, port)
Setup ==
    /\ \E e \in Endpoints : endpoint' = e
    /\ UNCHANGED <<is_server, callbacks, t_cbs, t_transport, t_protocol,
                   events, calls, routines>>
    /\ UNCHANGED framerVars

\* asyncio calls connection_made(transport)
ConnectionMade ==
    /\ Len(events) < MaxEvents
    /\ \E t \in Transports :
          /\ t_transport' = t
          /\ calls' = Append(calls, [receiver |-> t_cbs,
                                     method |-> "cb_connection_made",
                                     arg |-> t])
          /\ events' = Append(events, [event |-> "connection_made",
                                       arg |-> t])
    /\ UNCHANGED <<is_server, callbacks, t_cbs, t_protocol, endpoint,
                   routines>>
    /\ UNCHANGED framerVars

\* asyncio calls data_received(data)
DataReceived ==
    /\ Len(events) < MaxEvents
    /\ \E d \in DataArgs :
          /\ calls' = Append(calls, [receiver |-> t_cbs,
                                     method |-> "cb_data_received",
                                     arg |-> d])
          /\ events' = Append(events, [event |-> "data_received", arg |-> d])
    /\ UNCHANGED <<is_server, callbacks, t_cbs, t_transport, t_protocol,
                   endpoint, routines>>
    /\ UNCHANGED framerVars

\* asyncio calls connection_lost(exc)
ConnectionLost ==
    /\ Len(events) < MaxEvents
    /\ \E e \in ExcArgs :
          /\ calls' = Append(calls, [receiver |-> t_cbs,
                                     method |-> "cb_connection_lost",
                                     arg |-> e])
          /\ events' = Append(events, [event |-> "connection_lost",
                                       arg |-> e])
    /\ UNCHANGED <<is_server, callbacks, t_cbs, t_transport, t_protocol,
                   endpoint, routines>>
    /\ UNCHANGED framerVars

\* await transport.async_start()
AsyncStart ==
    /\ Len(routines) < MaxStartStop
    /\ IF is_server
       THEN /\ routines' = Append(routines, [call |-> "async_start",
                                             ran |-> start_routine(TRUE),
                                             exc |-> "none"])
            /\ UNCHANGED <<t_transport, t_protocol>>
       ELSE LET r == async_start_client
            IN  /\ routines' = Append(routines, [call |-> "async_start",
                                                 ran |-> start_routine(FALSE),
                                                 exc |-> r.exc])
                /\ t_transport' = r.transport
                /\ t_protocol' = r.protocol
    /\ UNCHANGED <<is_server, callbacks, t_cbs, endpoint, events, calls>>
    /\ UNCHANGED framerVars

\* await transport.async_stop()
AsyncStop ==
    /\ Len(routines) < MaxStartStop
    /\ routines' = Append(routines, [call |-> "async_stop",
                                     ran |-> stop_routine(is_server),
                                     exc |-> "none"])
    /\ UNCHANGED <<is_server, callbacks, t_cbs, t_transport, t_protocol,
                   endpoint, events, calls>>
    /\ UNCHANGED framerVars

NextT ==
    \/ Setup
    \/ ConnectionMade
    \/ DataReceived
    \/ ConnectionLost
    \/ AsyncStart
    \/ AsyncStop

SpecT == InitT /\ [][NextT]_vars

\* ------------------------------------------------------------------------
\* Vocabulary of the properties
\* ------------------------------------------------------------------------
\* the frame a result stands for: its tid, pid, uid and PDU
Frame(c) ==
    Message(c.transaction_id, c.protocol_id, c.unit_id, c.function_code,
            c.payload)

Frames(cs) == [i \in 1..Len(cs) |-> Frame(cs[i])]

Decodable(m) == decode(<<m.function_code>> \o encode(m)) # None

Accepted(m) == validate_unit_id([ZeroHeader EXCEPT !.uid = m.unit_id], unit)

\* a complete frame for an accepted unit that the decoder decodes
GoodItem(it) == it.framed /\ Accepted(it.m) /\ Decodable(it.m)

ValidStream == \A i \in 1..Len(items) : GoodItem(items[i])

\* the messages of the good items, in stream order
RECURSIVE Deliverable(_)
Deliverable(its) ==
    IF its = <<>> THEN <<>>
    ELSE (IF GoodItem(Head(its)) THEN <<Head(its).m>> ELSE <<>>)
           \o Deliverable(Tail(its))

\* offset in the stream at which item k ends
Boundary(k) == Len(Concat(SubSeq(items, 1, k)))

\* the bytes handed over by the step from pos to pos'
Fed == SubSeq(stream, pos + 1, pos')

\* the length field of the header at the head of b
HeadLen(b) == UnpackH(b, 5)

\* b starts with a header whose body has not arrived completely
IncompleteBody(b) ==
    /\ Len(b) >= 8
    /\ HeadLen(b) >= 2
    /\ Len(b) < hsize + HeadLen(b) - 1

\* the first call on the connection was given the whole stream
WholeFeed == first /\ pos = Len(stream) /\ Len(stream) > 0

\* ------------------------------------------------------------------------
\* Properties
\* ------------------------------------------------------------------------

\* C1: chunk-invariance.  On a stream of complete, decodable frames for
\* accepted units no call raises, however the stream is cut into chunks,
\* and once all of it is fed the callback has received the same frames in
\* the same order as one call on the whole stream hands over.
C1_ChunkInvariance ==
    ValidStream =>
        /\ raised = "none"
        /\ pos = Len(stream) =>
              Frames(cbs) =
                  Frames(processIncomingPacket(NewFramer, stream, unit).out)

\* C2: an incomplete body is retained.  A call after which the buffer would
\* hold a header with length >= 2 and fewer than 7 + length - 1 bytes hands
\* nothing to the callback, raises nothing and keeps the bytes; the call that
\* then brings exactly the missing bytes hands over one result and empties
\* the buffer.
C2_IncompleteBodyRetained ==
    [][/\ (pos' > pos /\ IncompleteBody(buffer \o Fed))
            => (cbs' = cbs /\ raised' = "none" /\ buffer' = buffer \o Fed)
       /\ (/\ pos' > pos
           /\ IncompleteBody(buffer)
           /\ Len(buffer \o Fed) = hsize + HeadLen(buffer) - 1
           /\ validate_unit_id(UnpackHeader(buffer), unit)
           /\ decode(SliceFrom(buffer \o Fed, hsize)) # None)
            => (Len(cbs') = Len(cbs) + 1 /\ buffer' = <<>>)]_vars

\* C3: round trip.  buildPacket returns 8 + len(d) bytes with the length
\* field len(d) + 2; a fresh framer that accepts the unit and is given
\* exactly these bytes hands one result to the callback, with the message's
\* tid, pid, uid, function code and payload, and its buffer is empty.
C3_RoundTrip ==
    /\ packet # <<>> =>
          /\ Len(packet) = 8 + Len(encode(message))
          /\ HeadLen(packet) = Len(encode(message)) + 2
    /\ (WholeFeed /\ packet # <<>> /\ Accepted(message) /\ Decodable(message))
          => /\ Frames(cbs) = <<message>>
             /\ cbs[1].error = FALSE
             /\ buffer = <<>>
             /\ raised = "none"

\* a message with a payload and a large tid went round
C3_Witness ==
    /\ WholeFeed
    /\ packet # <<>>
    /\ message.transaction_id = 65535
    /\ message.protocol_id = 5
    /\ Len(message.payload) = MaxPayload
    /\ Frames(cbs) = <<message>>

\* C4: several frames in one call.  A call that finds the buffer empty and
\* is given k >= 1 complete, decodable frames for accepted units hands
\* exactly these k frames to the callback, in stream order and each with
\* the tid, pid and uid of its own header, and leaves the buffer empty.
C4_SeveralFrames ==
    [][\A i \in 0..Len(items), j \in 0..Len(items) :
          (/\ i < j
           /\ buffer = <<>>
           /\ pos = Boundary(i)
           /\ pos' = Boundary(j)
           /\ \A k \in (i + 1)..j : GoodItem(items[k]))
            => /\ Len(cbs') = Len(cbs) + (j - i)
               /\ \A k \in (i + 1)..j :
                      /\ Frame(cbs'[Len(cbs) + (k - i)]) = items[k].m
                      /\ cbs'[Len(cbs) + (k - i)].error = FALSE
               /\ SubSeq(cbs', 1, Len(cbs)) = cbs
               /\ buffer' = <<>>
               /\ raised' = "none"]_vars

\* one call delivered two different frames
C4_Witness ==
    /\ WholeFeed
    /\ ValidStream
    /\ Len(items) >= 2
    /\ items[1].m.transaction_id # items[2].m.transaction_id
    /\ Frames(cbs) = [k \in 1..Len(items) |-> items[k].m]
    /\ buffer = <<>>

\* C5: a decode failure leaves the connection healthy.  When one call is
\* given complete frames for accepted units, the frames the decoder fails
\* on are consumed and every frame it decodes is handed to the callback.
C5_DecodeFailureHealthy ==
    (WholeFeed /\ \A i \in 1..Len(items) :
                      items[i].framed /\ Accepted(items[i].m))
        => (Frames(cbs) = Deliverable(items) /\ buffer = <<>>)

\* C6: a unit-id mismatch drops that frame only.  When one call is given
\* complete, decodable frames, those for units that are not accepted cause
\* no callback and no exception and are removed, and those for accepted
\* units are handed to the callback.
C6_UnitMismatchDropsOneFrame ==
    (WholeFeed /\ \A i \in 1..Len(items) :
                      items[i].framed /\ Decodable(items[i].m))
        => /\ Frames(cbs) = Deliverable(items)
           /\ raised = "none"
           /\ buffer = <<>>

\* C7: a malformed short frame.  When one call is given at least 8 bytes
\* that start with a header whose length field is below 2, and that are
\* made of such headers and good frames, the headers cause no callback and
\* no exception, exactly their 7 bytes are skipped, and the good frames
\* after them are handed to the callback.
C7_ShortFrameSkipped ==
    (/\ WholeFeed
     /\ Len(items) >= 2
     /\ ~items[1].framed
     /\ \A i \in 1..Len(items) : GoodItem(items[i]) \/ ~items[i].framed)
        => /\ Frames(cbs) = Deliverable(items)
           /\ raised = "none"
           /\ buffer = <<>>

\* C8: frame-buffer invariant.  After every call, returned or raised, the
\* buffer is empty, or shorter than a header with a function code, or a
\* header with an incomplete body: no complete frame stays at its head.
C8_BufferInvariant ==
    pos > 0 => (Len(buffer) <= hsize \/ IncompleteBody(buffer))

\* C9: no byte is emitted twice.  When the callback is given a result, the
\* buffer starts after the data the decoder was given for it, and the data
\* of two results never overlap.
C9_NoByteEmittedTwice ==
    /\ \A i \in 1..Len(cbs) : cbs[i].next >= cbs[i].last
    /\ \A i \in 1..Len(cbs), j \in 1..Len(cbs) :
           i < j => cbs[i].last <= cbs[j].first

\* C10: a partial header waits.  A call after which the buffer would hold
\* 1 to 7 bytes parses no header, hands nothing to the callback, raises
\* nothing and keeps the bytes.
C10_PartialHeaderWaits ==
    [][(pos' > pos /\ Len(buffer \o Fed) \in 1..hsize)
          => /\ cbs' = cbs
             /\ raised' = "none"
             /\ buffer' = buffer \o Fed
             /\ header' = header]_vars

\* the callback method an event is passed to
CallbackOf(e) ==
    IF e = "connection_made" THEN "cb_connection_made"
    ELSE IF e = "data_received" THEN "cb_data_received"
    ELSE "cb_connection_lost"

\* C11: transport events reach the user's callbacks in arrival order.  On
\* a transport constructed with a callbacks object, the calls made are
\* exactly one call per event, on that object, of the event's callback
\* method with the event's argument, in the order of the events.
C11_EventsReachUserCallbacks ==
    callbacks # "None" =>
        calls = [i \in 1..Len(events) |->
                    [receiver |-> callbacks,
                     method |-> CallbackOf(events[i].event),
                     arg |-> events[i].arg]]

\* C12: start/stop dispatch by role.  async_start runs the client start
\* routine on a client and the server start routine on a server, async_stop
\* the stop routine of the same role, and the calls complete without error.
C12_StartStopByRole ==
    \A i \in 1..Len(routines) :
        /\ routines[i].call = "async_start" =>
              routines[i].ran = (IF is_server THEN "_async_start_server"
                                 ELSE "_async_start_client")
        /\ routines[i].call = "async_stop" =>
              routines[i].ran = (IF is_server THEN "_async_stop_server"
                                 ELSE "_async_stop_client")
        /\ routines[i].exc = "none"

\* C13: a non-zero protocol id is tolerated.  A complete, decodable frame
\* for an accepted unit with pid # 0, given to a fresh framer, is handed to
\* the callback with protocol_id equal to the pid on the wire, and apart
\* from that field the result, the buffer, the header and the outcome are
\* those of the same frame sent with pid = 0.
C13_NonZeroPidTolerated ==
    (/\ WholeFeed
     /\ packet # <<>>
     /\ Accepted(message)
     /\ Decodable(message)
     /\ message.protocol_id # 0)
        => LET zero == [message EXCEPT !.protocol_id = 0]
               z == processIncomingPacket(NewFramer, buildPacket(zero), unit)
           IN  /\ Len(cbs) = 1
               /\ Len(z.out) = 1
               /\ cbs[1].protocol_id = UnpackH(packet, 3)
               /\ cbs[1].protocol_id = message.protocol_id
               /\ [cbs[1] EXCEPT !.protocol_id = 0] = z.out[1]
               /\ buffer = z.f.buffer
               /\ header = z.f.header
               /\ raised = "none"
               /\ z.exc = "none"

\* a frame with pid = 5 was delivered
C13_Witness ==
    /\ WholeFeed
    /\ packet # <<>>
    /\ message.protocol_id = 5
    /\ UnpackH(packet, 3) = 5
    /\ Len(cbs) = 1
    /\ cbs[1].protocol_id = 5
    /\ cbs[1].error = FALSE

\* what one call on the framer f with the chunk c yields, without the
\* offsets in the stream
Outcome(f, c) ==
    LET r == processIncomingPacket(f, c, unit)
    IN  [frames |-> Frames(r.out),
         errors |-> [i \in 1..Len(r.out) |-> r.out[i].error],
         exc |-> r.exc, buffer |-> r.f.buffer, header |-> r.f.header]

\* C14: resetFrame returns the framer to its initial framing state.  After
\* a resetFrame call, from any state between two calls, the buffer is empty
\* and the header is all zeros, decoder and client are unchanged, a second
\* resetFrame changes nothing, and the next feed yields the same callbacks,
\* exceptions, buffer and header as on a freshly constructed framer.
C14_ResetFrameInitialState ==
    [][resets' # resets =>
          /\ buffer' = NewFramer.buffer
          /\ header' = NewFramer.header
          /\ decoder' = decoder
          /\ client' = client
          /\ resetFrame(Framer') = Framer'
          /\ \A n \in 1..(Len(stream) - pos) :
                Outcome(Framer', Chunk(n)) = Outcome(NewFramer, Chunk(n))]_vars

\* resetFrame was called after a call that raised and left bytes behind,
\* and there are bytes still to come
C14_Witness ==
    /\ resets > 0
    /\ raised # "none"
    /\ buffer = <<>>
    /\ header = ZeroHeader
    /\ pos < Len(stream)

\* C15: decoding never hangs.  Every pass through the loop that does not
\* leave it strictly shortens the buffer, by at least 8 bytes when a frame
\* was processed and to nothing otherwise, and a call that has entered the
\* loop leaves it.
C15_DecodingTerminates ==
    /\ [][(pc = "loop" /\ pc' = "loop") =>
             /\ Len(buffer') < Len(buffer)
             /\ Len(cbs') > Len(cbs) => Len(buffer) - Len(buffer') >= 8
             /\ Len(cbs') = Len(cbs) => buffer' = <<>>]_vars
    /\ (pc = "loop") ~> (pc = "idle")

\* the loop was left after a frame was processed and the bytes of a cut
\* frame behind it were discarded
C15_Witness ==
    /\ pc = "idle"
    /\ pos > 0
    /\ Len(cbs) >= 1
    /\ Len(stream) < Len(Concat(items))
    /\ buffer = <<>>
    /\ base = Len(stream)

C17_ConsumedBeforeCallback ==
    \A i \in 1..Len(cbs) :
        /\ cbs[i].hdr = ZeroHeader
        /\ cbs[i].next >= cbs[i].last

\* C18: error-path gating.  When the loop handles a non-empty buffer of
\* fewer than 8 bytes through _process(error=True): if the decoder yields
\* nothing ModbusIOException is raised, if the function code is below 0x80
\* InvalidMessageReceivedException is raised, and in both cases buffer and
\* header stay as they were and the callback gets nothing; otherwise the
\* callback gets the result, whose function code is >= 0x80.
C18_ErrorPathGating ==
    [][(pc = "loop" /\ ~isFrameReady(Framer) /\ Len(buffer) > 0
          /\ header.len < 2) =>
          LET r == decode(getRawFrame(Framer))
          IN  /\ r = None =>
                    /\ raised' = "ModbusIOException"
                    /\ cbs' = cbs /\ buffer' = buffer /\ header' = header
              /\ (r # None /\ r.function_code < 128) =>
                    /\ raised' = "InvalidMessageReceivedException"
                    /\ cbs' = cbs /\ buffer' = buffer /\ header' = header
              /\ (r # None /\ r.function_code >= 128) =>
                    /\ raised' = "none"
                    /\ Len(cbs') = Len(cbs) + 1
                    /\ cbs'[Len(cbs')].function_code = r.function_code
                    /\ cbs'[Len(cbs')].error = TRUE
              /\ Len(cbs') > Len(cbs) =>
                    cbs'[Len(cbs')].function_code >= 128]_vars

\* the error path has handed over an exception response and, in a later
\* call, has raised on a function code below 0x80
C18_Witness ==
    /\ pc = "idle"
    /\ raised = "InvalidMessageReceivedException"
    /\ \E i \in 1..Len(cbs) : cbs[i].error /\ cbs[i].function_code >= 128

\* C19: decode_data is a pure header peek consistent with buildPacket.  A
\* decode_data call leaves buffer and header as they were; what it returns
\* is empty when the data has 7 bytes or fewer; and for the packet that
\* buildPacket made of a message it returns the message's transaction id,
\* protocol id, unit id and function code, and as length the length of the
\* encoded message plus 2.
C19_DecodeDataPeek ==
    /\ [][DecodeData => (buffer' = buffer /\ header' = header)]_vars
    /\ [](Len(peek.data) <= hsize => peek.ret = {})
    /\ []((packet # <<>> /\ peek.data = packet) =>
             peek.ret = {<<"tid", message.transaction_id>>,
                         <<"pid", message.protocol_id>>,
                         <<"length", Len(encode(message)) + 2>>,
                         <<"unit", message.unit_id>>,
                         <<"fcode", message.function_code>>})

\* decode_data was called on the whole packet of a message with a non-zero
\* protocol id and a payload while the framer held bytes and a result
C19_Witness ==
    /\ packet # <<>>
    /\ peek.data = packet
    /\ message.protocol_id = 5
    /\ message.payload # <<>>
    /\ Len(buffer) > 0
    /\ peek.ret # {}

====
